---------------------------- MODULE Spec2Model ----------------------------
(***************************************************************************)
(* painel-noticias: the feed digest job (scripts/fetch_news.py) and the    *)
(* Telegram publisher (scripts/telegram_publisher.py) as state machines.   *)
(*                                                                         *)
(* A Python str is a sequence of one-character strings, so that slicing,   *)
(* lower(), strip() and the substring test `kw in text` are computed on    *)
(* the characters.  None is NULL.  A datetime is a number of minutes since *)
(* 00:00 UTC of day 0 of the model's calendar.                             *)
(***************************************************************************)
EXTENDS Integers, Sequences, FiniteSets, TLC

\* None, where a str or a list is expected
NULL == <<"None">>

Min(a, b) == IF a <= b THEN a ELSE b
Max(a, b) == IF a >= b THEN a ELSE b

(***************************************************************************)
(* str                                                                     *)
(***************************************************************************)
UPPER_CHARS ==
  <<"A","B","C","D","E","F","G","H","I","J","K","L","M",
    "N","O","P","Q","R","S","T","U","V","W","X","Y","Z","Ó","Ç">>

LOWER_CHARS ==
  <<"a","b","c","d","e","f","g","h","i","j","k","l","m",
    "n","o","p","q","r","s","t","u","v","w","x","y","z","ó","ç">>

UpperToLower ==
  [c \in {UPPER_CHARS[i] : i \in 1..Len(UPPER_CHARS)} |->
      LOWER_CHARS[CHOOSE i \in 1..Len(UPPER_CHARS) : UPPER_CHARS[i] = c]]

\* str.lower(), one character
lower_char(c) == IF c \in DOMAIN UpperToLower THEN UpperToLower[c] ELSE c

\* str.lower()
lower(s) == [i \in 1..Len(s) |-> lower_char(s[i])]

\* the characters str.strip() removes and the regex class \s matches
WHITESPACE == {" ", "\t", "\n", "\r"}

\* s[:n]
Take(s, n) == SubSeq(s, 1, Min(n, Len(s)))

\* s[n:]
Drop(s, n) == SubSeq(s, n + 1, Len(s))

\* str.strip()
strip(s) ==
  LET keep == {i \in 1..Len(s) : s[i] \notin WHITESPACE}
  IN  IF keep = {} THEN <<>>
      ELSE SubSeq(s, CHOOSE i \in keep : \A j \in keep : i <= j,
                     CHOOSE i \in keep : \A j \in keep : i >= j)

\* s[pos:].startswith(lit), pos counted from 1
StartsAt(s, pos, lit) ==
  /\ pos + Len(lit) - 1 <= Len(s)
  /\ \A k \in 1..Len(lit) : s[pos + k - 1] = lit[k]

\* kw in text
StrIn(kw, text) == \E i \in 1..(Len(text) - Len(kw) + 1) : StartsAt(text, i, kw)

\* any(k in text for k in kws)
AnyIn(kws, text) == \E k \in 1..Len(kws) : StrIn(kws[k], text)

\* str.split(sep)[0]
SplitFirst(s, sep) ==
  LET hits == {i \in 1..(Len(s) - Len(sep) + 1) : StartsAt(s, i, sep)}
  IN  IF hits = {} THEN s
      ELSE SubSeq(s, 1, (CHOOSE i \in hits : \A j \in hits : i <= j) - 1)

\* n copies of the character c
Rep(c, n) == [i \in 1..n |-> c]

(***************************************************************************)
(* fetch_news.py: classification by keywords                               *)
(***************************************************************************)
CATEGORY_KEYWORDS ==
  <<
    [cat |-> "Crypto", kws |-> <<
       <<"b","i","t","c","o","i","n">>,
       <<"b","t","c">>,
       <<"e","t","h","e","r","e","u","m">>,
       <<"e","t","h">>,
       <<"c","r","y","p","t","o">>,
       <<"b","l","o","c","k","c","h","a","i","n">>,
       <<"d","e","f","i">>,
       <<"n","f","t">>,
       <<"s","o","l","a","n","a">>,
       <<"b","i","n","a","n","c","e">>,
       <<"c","o","i","n","b","a","s","e">>,
       <<"e","t","f"," ","b","i","t","c","o","i","n">>,
       <<"e","t","f"," ","e","t","h","e","r">> >>],
    [cat |-> "US Macro", kws |-> <<
       <<"f","e","d">>,
       <<"f","o","m","c">>,
       <<"c","p","i">>,
       <<"p","p","i">>,
       <<"p","a","y","r","o","l","l","s">>,
       <<"j","o","b","l","e","s","s">>,
       <<"i","n","f","l","a","t","i","o","n">>,
       <<"p","c","e">>,
       <<"r","a","t","e","s">>,
       <<"y","i","e","l","d","s">>,
       <<"t","r","e","a","s","u","r","y">>,
       <<"u","s","d">>,
       <<"u","n","e","m","p","l","o","y","m","e","n","t">>,
       <<"h","o","u","s","i","n","g"," ","s","t","a","r","t","s">>,
       <<"i","s","m">> >>],
    [cat |-> "Regulation", kws |-> <<
       <<"s","e","c">>,
       <<"c","f","t","c">>,
       <<"d","o","j">>,
       <<"f","t","c">>,
       <<"l","a","w","s","u","i","t">>,
       <<"s","e","t","t","l","e","m","e","n","t">>,
       <<"s","u","b","p","o","e","n","a">>,
       <<"i","n","v","e","s","t","i","g","a","t","i","o","n">>,
       <<"r","e","g","u","l","a","t","i","o","n">>,
       <<"r","e","g","u","l","a","t","ó","r","i","o">>,
       <<"r","e","g","u","l","a","c","a","o">>,
       <<"c","o","m","p","l","i","a","n","c","e">> >>],
    [cat |-> "Earnings", kws |-> <<
       <<"e","a","r","n","i","n","g","s">>,
       <<"r","e","s","u","l","t","s">>,
       <<"q","u","a","r","t","e","r">>,
       <<"g","u","i","d","a","n","c","e">>,
       <<"e","p","s">>,
       <<"r","e","v","e","n","u","e">>,
       <<"o","u","t","l","o","o","k">>,
       <<"l","u","c","r","o","s">>,
       <<"t","r","i","m","e","s","t","r","e">>,
       <<"b","a","l","a","n","ç","o">>,
       <<"b","a","l","a","n","c","o">> >>],
    [cat |-> "Markets", kws |-> <<
       <<"s","t","o","c","k","s">>,
       <<"e","q","u","i","t","i","e","s">>,
       <<"n","a","s","d","a","q">>,
       <<"d","o","w">>,
       <<"s","&","p">>,
       <<"s","&","p"," ","5","0","0">>,
       <<"s","p","5","0","0">>,
       <<"f","u","t","u","r","e","s">>,
       <<"f","u","t","u","r","o","s">>,
       <<"o","p","t","i","o","n","s">>,
       <<"c","o","m","m","o","d","i","t","i","e","s">>,
       <<"o","i","l">>,
       <<"g","o","l","d">>,
       <<"s","i","l","v","e","r">>,
       <<"t","r","e","a","s","u","r","i","e","s">>,
       <<"w","e","b","3">> >>]
  >>

IMPACT_HIGH ==
  << <<"c","p","i">>,
     <<"p","c","e">>,
     <<"f","e","d">>,
     <<"f","o","m","c">>,
     <<"s","e","c">>,
     <<"c","f","t","c">>,
     <<"b","a","n">>,
     <<"e","t","f">>,
     <<"c","o","l","l","a","p","s","e">>,
     <<"l","a","w","s","u","i","t">>,
     <<"b","a","n","k","r","u","p","t","c","y">>,
     <<"h","a","l","t">>,
     <<"s","h","u","t","d","o","w","n">>,
     <<"t","a","r","i","f","f">>,
     <<"d","e","f","a","u","l","t">>,
     <<"t","r","e","a","s","u","r","y">>,
     <<"y","i","e","l","d","s">> >>

IMPACT_MEDIUM ==
  << <<"b","t","c">>,
     <<"b","i","t","c","o","i","n">>,
     <<"e","t","h">>,
     <<"e","t","h","e","r","e","u","m">>,
     <<"e","a","r","n","i","n","g","s">>,
     <<"g","u","i","d","a","n","c","e">>,
     <<"r","e","c","o","r","d">>,
     <<"d","r","o","p">>,
     <<"s","u","r","g","e">>,
     <<"p","l","u","n","g","e">>,
     <<"r","a","l","l","y">>,
     <<"u","p","g","r","a","d","e">>,
     <<"d","o","w","n","g","r","a","d","e">> >>

CRYPTO_SOURCES ==
  << <<"c","o","i","n","d","e","s","k">>,
     <<"c","o","i","n","t","e","l","e","g","r","a","p","h">>,
     <<"d","e","c","r","y","p","t">>,
     <<"t","h","e"," ","b","l","o","c","k">> >>

MARKET_SOURCES ==
  << <<"r","e","u","t","e","r","s">>,
     <<"w","s","j">>,
     <<"y","a","h","o","o">>,
     <<"f","t">> >>

HUB_SEGMENTS ==
  << <<"c","a","t","e","g","o","r","y">>,
     <<"t","a","g","s">>,
     <<"v","i","d","e","o">>,
     <<"v","i","d","e","o","s">>,
     <<"a","u","t","h","o","r","s">>,
     <<"s","e","a","r","c","h">> >>

SPACE == <<" ">>

\* the category of an item main has not classified yet
NO_CATEGORY == "None"

\* Mutant of FirstKeywordCategory: the category of the keyword that occurs
\* first in the text wins.
FirstKeywordCategory_ByPosition(text, ci) ==
  LET hits == {h \in (1..Len(text)) \X (ci..Len(CATEGORY_KEYWORDS)) :
                 \E k \in 1..Len(CATEGORY_KEYWORDS[h[2]].kws) :
                    StartsAt(text, h[1], CATEGORY_KEYWORDS[h[2]].kws[k])}
  IN  IF hits = {} THEN NO_CATEGORY
      ELSE CATEGORY_KEYWORDS[
             (CHOOSE h \in hits : \A g \in hits :
                 h[1] < g[1] \/ (h[1] = g[1] /\ h[2] <= g[2]))[2]].cat

\* the loop of guess_category over CATEGORY_KEYWORDS.items(), from the ci-th on
RECURSIVE FirstKeywordCategory(_, _)
FirstKeywordCategory(text, ci) ==
  IF ci > Len(CATEGORY_KEYWORDS) THEN NO_CATEGORY
  ELSE IF AnyIn(CATEGORY_KEYWORDS[ci].kws, text) THEN CATEGORY_KEYWORDS[ci].cat
  ELSE FirstKeywordCategory(text, ci + 1)

guess_category(title, summary, source_name) ==
  LET text == lower(title \o SPACE \o summary \o SPACE \o source_name)
      hit  == FirstKeywordCategory(text, 1)
      s    == lower(source_name)
  IN  IF hit # NO_CATEGORY THEN hit
      ELSE IF AnyIn(CRYPTO_SOURCES, s) THEN "Crypto"
      ELSE IF AnyIn(MARKET_SOURCES, s) THEN "Markets"
      ELSE "Markets"

\* the impact ladder of main (3 = high, 2 = medium, 1 = low)
impact_score(title, summary) ==
  LET t_all == lower(title \o SPACE \o summary)
  IN  IF AnyIn(IMPACT_HIGH, t_all) THEN 3
      ELSE IF AnyIn(IMPACT_MEDIUM, t_all) THEN 2
      ELSE 1

\* the quick tags of main, on the lower-cased title
quick_tags(title) ==
  LET t_title == lower(title)
  IN  (IF StrIn(<<"b","i","t","c","o","i","n">>, t_title) \/ StrIn(<<"b","t","c">>, t_title)
       THEN <<"BTC">> ELSE <<>>)
      \o
      (IF StrIn(<<"e","t","h","e","r","e","u","m">>, t_title) \/ StrIn(<<"e","t","h">>, t_title)
       THEN <<"ETH">> ELSE <<>>)

(***************************************************************************)
(* fetch_news.py: noise filter                                             *)
(***************************************************************************)
\* Each pattern is the list of its literal pieces, lower-cased (the patterns
\* are matched with re.IGNORECASE); between two pieces the pattern has \s*,
\* and it is anchored with ^ and $.
IGNORE_TITLE_PATTERNS ==
  << << <<"c","o","i","n","d","e","s","k",":">>,
        <<"b","i","t","c","o","i","n",",">>,
        <<"e","t","h","e","r","e","u","m",",">>,
        <<"c","r","y","p","t","o"," ","n","e","w","s"," ","a","n","d"," ",
          "p","r","i","c","e"," ","d","a","t","a">> >> >>

\* the first position at or after pos that holds no whitespace
RECURSIVE SkipSpace(_, _)
SkipSpace(s, pos) ==
  IF pos <= Len(s) /\ s[pos] \in WHITESPACE THEN SkipSpace(s, pos + 1) ELSE pos

\* $ : the end of the string, or just before a newline that ends it
AtEnd(s, pos) == pos = Len(s) + 1 \/ (pos = Len(s) /\ s[pos] = "\n")

\* the pieces of a pattern from the k-th on match s from pos to its end
RECURSIVE MatchPieces(_, _, _, _)
MatchPieces(s, pos, pieces, k) ==
  /\ StartsAt(s, pos, pieces[k])
  /\ IF k = Len(pieces) THEN AtEnd(s, pos + Len(pieces[k]))
     ELSE MatchPieces(s, SkipSpace(s, pos + Len(pieces[k])), pieces, k + 1)

\* re.search(pat, t, flags=re.IGNORECASE) for a pattern of IGNORE_TITLE_PATTERNS
MatchesTitlePattern(pieces, t) == MatchPieces(lower(t), 1, pieces, 1)

\* re.search(r"/(category|tags|video|videos|authors|search)(/|$)", l)
MatchesHub(l) ==
  \E h \in 1..Len(HUB_SEGMENTS) : \E i \in 1..Len(l) :
     LET seg == <<"/">> \o HUB_SEGMENTS[h]
         nxt == i + Len(seg)
     IN  /\ StartsAt(l, i, seg)
         /\ (AtEnd(l, nxt) \/ (nxt <= Len(l) /\ l[nxt] = "/"))

should_ignore(title, link) ==
  LET t == strip(title)
      l == lower(link)
  IN  \/ \E p \in 1..Len(IGNORE_TITLE_PATTERNS) :
            MatchesTitlePattern(IGNORE_TITLE_PATTERNS[p], t)
      \/ /\ StrIn(<<"c","o","i","n","d","e","s","k",".","c","o","m">>, l)
         /\ \/ StrIn(<<"/","l","i","v","e","/">>, l)
            \/ MatchesHub(l)

(***************************************************************************)
(* fetch_news.py: time                                                     *)
(***************************************************************************)
\* minutes
HOUR == 60
DAY == 24 * HOUR

\* tz.gettz("Europe/Lisbon"): summer time (UTC+1) until 01:00 UTC of the
\* model's day 7, winter time (UTC+0) from then on.
DST_END == 7 * DAY + HOUR

LisbonOffset(dt) == IF dt < DST_END THEN HOUR ELSE 0

\* dt.astimezone(TZ_LISBON).date().isoformat(): ISO dates compare as the day
\* numbers do
LisbonDate(dt) == (dt + LisbonOffset(dt)) \div DAY

\* dt.astimezone(TZ_LISBON).strftime("%H:%M"): the pair <<HH, MM>>
LisbonTime(dt) ==
  LET m == (dt + LisbonOffset(dt)) % DAY IN <<m \div HOUR, m % HOUR>>

\* "HH:MM" strings, and tuples of them, compare field by field
TimeLess(a, b) == a[1] < b[1] \/ (a[1] = b[1] /\ a[2] < b[2])

(***************************************************************************)
(* fetch_news.py: normalize_item                                           *)
(***************************************************************************)
\* re.sub("<[^<]+?>", "", s): drop every leftmost shortest "<", one or more
\* characters other than "<", ">"
RECURSIVE StripTagsFrom(_, _)
StripTagsFrom(s, i) ==
  IF i > Len(s) THEN <<>>
  ELSE LET ends == {j \in (i + 2)..Len(s) :
                      /\ s[j] = ">"
                      /\ \A k \in (i + 1)..(j - 1) : s[k] # "<"}
       IN  IF s[i] = "<" /\ ends # {}
           THEN StripTagsFrom(s, (CHOOSE j \in ends : \A k \in ends : j <= k) + 1)
           ELSE <<s[i]>> \o StripTagsFrom(s, i + 1)

StripTags(s) == StripTagsFrom(s, 1)

SUMMARY_MAX == 280

\* x or ""
OrEmpty(x) == IF x = NULL THEN <<>> ELSE x

\* bool(x) of an optional str: None and "" are false
Truthy(x) == x # NULL /\ x # <<>>

\* bool(x) of an optional date field; an absent one is [kind |-> "absent"]
Present(v) == v.kind # "absent"

\* time.mktime(struct_time) raises OverflowError on a struct it cannot
\* represent; feedparser hands over whatever year the feed states.
MktimeRaises(tm) == tm.kind = "out_of_range"

\* datetime.fromtimestamp(time.mktime(tm), timezone.utc): mktime reads the
\* fields of tm as the machine's local time
FromStruct(tm, localOffset) == tm.t - localOffset

\* dtparser.parse(text) raises on a text it cannot read
ParseRaises(text) == text.kind = "unparseable"

\* dtparser.parse(text).astimezone(timezone.utc): a text without an offset
\* is taken as the machine's local time
FromText(text, localOffset) ==
  IF text.kind = "naive" THEN text.t - localOffset ELSE text.t

TEXT_DATE_KEYS == <<"published", "updated", "date">>

\* the loop over ("published", "updated", "date"), from the k-th key on:
\* <<dt>> of the first key that parses, <<>> when none does
RECURSIVE FirstTextDate(_, _, _)
FirstTextDate(entry, k, localOffset) ==
  IF k > Len(TEXT_DATE_KEYS) THEN <<>>
  ELSE LET v == entry[TEXT_DATE_KEYS[k]]
       IN  IF Present(v) /\ ~ParseRaises(v) THEN <<FromText(v, localOffset)>>
           ELSE FirstTextDate(entry, k + 1, localOffset)

\* hashlib.sha1(raw_id.encode("utf-8", "ignore")).hexdigest()[:12]
Sha1Hex12(raw_id) == <<"sha1:12", raw_id>>

\* the exception that leaves normalize_item, if one does
normalize_raises(entry, localOffset) ==
  IF Present(entry.published_parsed) THEN MktimeRaises(entry.published_parsed)
  ELSE IF Present(entry.updated_parsed) THEN MktimeRaises(entry.updated_parsed)
  ELSE FALSE

\* the datetime normalize_item resolves when it does not raise
resolve_dt(entry, now, localOffset) ==
  LET dt == IF Present(entry.published_parsed)
              THEN <<FromStruct(entry.published_parsed, localOffset)>>
            ELSE IF Present(entry.updated_parsed)
              THEN <<FromStruct(entry.updated_parsed, localOffset)>>
            ELSE FirstTextDate(entry, 1, localOffset)
  IN  IF dt = <<>> THEN now ELSE dt[1]

\* normalize_item(entry, feed_title): [raised |-> TRUE], or the pair it returns
normalize_item(entry, feed_title, now, localOffset) ==
  IF normalize_raises(entry, localOffset) THEN [raised |-> TRUE]
  ELSE
    LET title   == strip(OrEmpty(entry.title))
        link    == OrEmpty(entry.link)
        summary == strip(Take(StripTags(OrEmpty(entry.summary)), SUMMARY_MAX))
        source  == IF feed_title # <<>>
                   THEN strip(SplitFirst(feed_title, <<" ", "-", " ">>))
                   ELSE <<>>
        dt      == resolve_dt(entry, now, localOffset)
        raw_id  == IF Truthy(entry.id) THEN entry.id
                   ELSE IF link # <<>> THEN link ELSE title
    IN  [raised |-> FALSE,
         dt     |-> dt,
         item   |-> [id       |-> Sha1Hex12(raw_id),
                     time_iso |-> <<LisbonDate(dt), LisbonTime(dt), LisbonOffset(dt)>>,
                     time     |-> LisbonTime(dt),
                     category |-> NO_CATEGORY,
                     title    |-> title,
                     summary  |-> summary,
                     source   |-> source,
                     url      |-> link,
                     tags     |-> <<>>]]

(***************************************************************************)
(* fetch_news.py: collect_from                                             *)
(***************************************************************************)
\* What the loop body of collect_from appends for one url.  resp is what
\* feedparser.parse(url) does: it raises, or it returns a feed title and
\* entries.  Entries are appended one by one, so those normalized before an
\* entry that raises are already in out when the except clause runs.
FeedRows(resp, now, localOffset) ==
  IF resp.kind = "raises" THEN <<>>
  ELSE
    LET feed_title == OrEmpty(resp.title)
        norm   == [i \in 1..Len(resp.entries) |->
                     normalize_item(resp.entries[i], feed_title, now, localOffset)]
        raised == {i \in 1..Len(resp.entries) : norm[i].raised}
        upto   == IF raised = {} THEN Len(resp.entries)
                  ELSE (CHOOSE i \in raised : \A j \in raised : i <= j) - 1
    IN  [i \in 1..upto |->
           [it |-> norm[i].item, dt |-> norm[i].dt, feed_title |-> feed_title]]

\* the loop of collect_from over feeds, from the k-th url on
RECURSIVE CollectLoop(_, _, _, _, _)
CollectLoop(feeds, k, responses, now, localOffset) ==
  IF k > Len(feeds) THEN <<>>
  ELSE FeedRows(responses[feeds[k]], now, localOffset)
       \o CollectLoop(feeds, k + 1, responses, now, localOffset)

\* collect_from(feeds): iterating None raises TypeError before the try
collect_from(feeds, responses, now, localOffset) ==
  IF feeds = NULL THEN [raised |-> TRUE]
  ELSE [raised |-> FALSE, out |-> CollectLoop(feeds, 1, responses, now, localOffset)]

(***************************************************************************)
(* fetch_news.py: dedupe_keep_latest                                       *)
(***************************************************************************)
TITLE_KEY_LEN == 120

\* key = ((it.get("title") or "")[:120].lower(), (it.get("source") or "").lower())
DedupeKey(it) == <<lower(Take(it.title, TITLE_KEY_LEN)), lower(it.source)>>

\* Mutant of DedupeStep: >= for >, so the last of several latest pairs wins.
DedupeStep_KeepLast(best, pair) ==
  LET key == DedupeKey(pair.it)
      at  == {i \in 1..Len(best) : best[i].key = key}
  IN  IF at = {} THEN Append(best, [key |-> key, val |-> pair])
      ELSE LET i == CHOOSE j \in at : TRUE
           IN  IF pair.dt >= best[i].val.dt
               THEN [best EXCEPT ![i] = [key |-> key, val |-> pair]]
               ELSE best

\* One iteration of the loop.  best is the dict, as the list of its entries in
\* insertion order (assigning to a key the dict holds keeps the key's place).
DedupeStep(best, pair) ==
  LET key == DedupeKey(pair.it)
      at  == {i \in 1..Len(best) : best[i].key = key}
  IN  IF at = {} THEN Append(best, [key |-> key, val |-> pair])
      ELSE LET i == CHOOSE j \in at : TRUE
           IN  IF pair.dt > best[i].val.dt
               THEN [best EXCEPT ![i] = [key |-> key, val |-> pair]]
               ELSE best

\* The loop over items_with_dt[lo..hi], in order, starting from best.  It is
\* split in halves to keep the evaluator's stack shallow on long lists; the
\* test on Len(best) makes it compute best before it goes down.
RECURSIVE DedupeLoop(_, _, _, _)
DedupeLoop(best, s, lo, hi) ==
  IF Len(best) < 0 \/ lo > hi THEN best
  ELSE IF lo = hi THEN DedupeStep(best, s[lo])
  ELSE LET mid == (lo + hi) \div 2
       IN  DedupeLoop(DedupeLoop(best, s, lo, mid), s, mid + 1, hi)

\* list(best.values())
dedupe_keep_latest(items_with_dt) ==
  LET best == DedupeLoop(<<>>, items_with_dt, 1, Len(items_with_dt))
  IN  [i \in 1..Len(best) |-> best[i].val]

(***************************************************************************)
(* list.sort(key=..., reverse=True): a stable sort, descending             *)
(***************************************************************************)
\* key=lambda x: x[1]
DtLess(a, b) == a.dt < b.dt

\* Mutant of RankLess: the time of day counts the other way round.
RankLess_TimeAscending(a, b) ==
  \/ a.impact_score < b.impact_score
  \/ a.impact_score = b.impact_score /\ TimeLess(b.time, a.time)

\* key=lambda x: (x.get("impact_score", 0), x.get("time", "00:00"))
RankLess(a, b) ==
  \/ a.impact_score < b.impact_score
  \/ a.impact_score = b.impact_score /\ TimeLess(a.time, b.time)

\* x goes behind the elements of the sorted list that are not below it
InsertAt(acc, x, n) == SubSeq(acc, 1, n) \o <<x>> \o SubSeq(acc, n + 1, Len(acc))

InsertByDt(acc, x) ==
  InsertAt(acc, x, Cardinality({i \in 1..Len(acc) : ~DtLess(acc[i], x)}))

InsertByRank(acc, x) ==
  InsertAt(acc, x, Cardinality({i \in 1..Len(acc) : ~RankLess(acc[i], x)}))

RECURSIVE SortByDtLoop(_, _, _, _)
SortByDtLoop(acc, s, lo, hi) ==
  IF Len(acc) < 0 \/ lo > hi THEN acc
  ELSE IF lo = hi THEN InsertByDt(acc, s[lo])
  ELSE LET mid == (lo + hi) \div 2
       IN  SortByDtLoop(SortByDtLoop(acc, s, lo, mid), s, mid + 1, hi)

\* items_with_dt.sort(key=lambda x: x[1], reverse=True)
SortByDtDesc(s) == SortByDtLoop(<<>>, s, 1, Len(s))

RECURSIVE SortByRankLoop(_, _, _, _)
SortByRankLoop(acc, s, lo, hi) ==
  IF Len(acc) < 0 \/ lo > hi THEN acc
  ELSE IF lo = hi THEN InsertByRank(acc, s[lo])
  ELSE LET mid == (lo + hi) \div 2
       IN  SortByRankLoop(SortByRankLoop(acc, s, lo, mid), s, mid + 1, hi)

\* d["items"].sort(key=lambda x: (impact_score, time), reverse=True)
SortByRankDesc(s) == SortByRankLoop(<<>>, s, 1, Len(s))

(***************************************************************************)
(* fetch_news.py: the steps of main                                        *)
(***************************************************************************)
MAX_ITEMS == 1000
ATTENTION_LEN == 120
MAX_ATTENTION == 3

\* lookback_days = max(1, args.days); cutoff_utc = now_utc - timedelta(days=...)
Cutoff(now, days) == now - Max(1, days) * DAY

\* the two list comprehensions over all_entries
FilterEntries(rows, cutoff) ==
  LET InWindow(r) == r.dt >= cutoff
      NotNoise(r) == ~should_ignore(r.it.title, r.it.url)
  IN  SelectSeq(SelectSeq(rows, InWindow), NotNoise)

\* the body of the enrichment loop for one row
EnrichRow(r) ==
  LET it == r.it
      named == IF it.source # <<>> THEN it.source ELSE r.feed_title
  IN  [it |-> [id           |-> it.id,
               time_iso     |-> it.time_iso,
               time         |-> it.time,
               category     |-> guess_category(it.title, it.summary, named),
               title        |-> it.title,
               summary      |-> it.summary,
               source       |-> it.source,
               url          |-> it.url,
               tags         |-> quick_tags(it.title),
               impact_score |-> impact_score(it.title, it.summary)],
       dt |-> r.dt]

Enrich(rows) == [i \in 1..Len(rows) |-> EnrichRow(rows[i])]

\* Mutant of CapItems: items_with_dt[-MAX_ITEMS:]
CapItems_Tail(s) == SubSeq(s, Max(1, Len(s) - MAX_ITEMS + 1), Len(s))

\* items_with_dt[:MAX_ITEMS]
CapItems(s) == Take(s, MAX_ITEMS)

\* it.pop("time_iso", None)
PopTimeIso(it) == [f \in DOMAIN it \ {"time_iso"} |-> it[f]]

\* One iteration of the grouping loop.  days_map is the dict, as the list of
\* its buckets in insertion order.
BucketStep(days_map, pair) ==
  LET d_lis == LisbonDate(pair.dt)
      at    == {i \in 1..Len(days_map) : days_map[i].date = d_lis}
      it    == PopTimeIso(pair.it)
  IN  IF at = {}
      THEN Append(days_map, [date |-> d_lis, attention_points |-> <<>>, items |-> <<it>>])
      ELSE LET i == CHOOSE j \in at : TRUE
           IN  [days_map EXCEPT ![i].items = Append(@, it)]

RECURSIVE BucketLoop(_, _, _, _)
BucketLoop(days_map, s, lo, hi) ==
  IF Len(days_map) < 0 \/ lo > hi THEN days_map
  ELSE IF lo = hi THEN BucketStep(days_map, s[lo])
  ELSE LET mid == (lo + hi) \div 2
       IN  BucketLoop(BucketLoop(days_map, s, lo, mid), s, mid + 1, hi)

GroupByDay(items_with_dt) == BucketLoop(<<>>, items_with_dt, 1, Len(items_with_dt))

\* Mutant of AttentionLoop: an item without a title uses a slot too (the loop
\* stops after MAX_ATTENTION items).
RECURSIVE AttentionLoop_SlotPerItem(_, _, _)
AttentionLoop_SlotPerItem(items, i, points) ==
  IF i > Len(items) \/ i > MAX_ATTENTION THEN points
  ELSE LET title_clean == strip(items[i].title)
       IN  AttentionLoop_SlotPerItem(items, i + 1,
              IF title_clean # <<>>
              THEN Append(points, Take(title_clean, ATTENTION_LEN))
              ELSE points)

\* the loop that fills attention_points, from the i-th item of the bucket on
RECURSIVE AttentionLoop(_, _, _)
AttentionLoop(items, i, points) ==
  IF i > Len(items) THEN points
  ELSE LET title_clean == strip(items[i].title)
           added == IF title_clean # <<>>
                    THEN Append(points, Take(title_clean, ATTENTION_LEN))
                    ELSE points
       IN  IF Len(added) >= MAX_ATTENTION THEN added
           ELSE AttentionLoop(items, i + 1, added)

\* the body of the loop over days_map.values()
RankBucket(d) ==
  LET sorted == SortByRankDesc(d.items)
  IN  [date |-> d.date,
       attention_points |-> AttentionLoop(sorted, 1, d.attention_points),
       items |-> sorted]

DateLess(a, b) == a.date < b.date

InsertByDate(acc, x) ==
  InsertAt(acc, x, Cardinality({i \in 1..Len(acc) : ~DateLess(acc[i], x)}))

RECURSIVE SortByDateLoop(_, _, _)
SortByDateLoop(acc, s, i) ==
  IF i > Len(s) THEN acc ELSE SortByDateLoop(InsertByDate(acc, s[i]), s, i + 1)

\* sorted(days_map.values(), key=lambda d: d["date"], reverse=True)
SortDaysDesc(days_map) == SortByDateLoop(<<>>, days_map, 1)

RankDays(days_map) ==
  SortDaysDesc([i \in 1..Len(days_map) |-> RankBucket(days_map[i])])

BuildPayload(days, now) ==
  [generated_at |-> <<LisbonDate(now), LisbonTime(now), LisbonOffset(now)>>,
   timezone     |-> "Europe/Lisbon",
   days         |-> days]

\* What json.dump(payload, f) writes, as the pieces reaching the file in
\* order: the head, one piece per day, the closing brace.
Document(payload) ==
  <<[generated_at |-> payload.generated_at, timezone |-> payload.timezone]>>
  \o payload.days \o <<[piece |-> "end"]>>

(***************************************************************************)
(* State                                                                   *)
(***************************************************************************)
VARIABLES
  \* fetch_news.py, what the run is given
  cfg,            \* yaml.safe_load(config/feeds.yml).values(): the groups in order
  responses,      \* what feedparser.parse(url) does for each url
  args_days,      \* --days
  localOffset,    \* the machine's local time zone, minutes east of UTC
  now_utc,        \* the clock of the run
  \* fetch_news.py, main
  pc,             \* where main stands
  group_ix,       \* the group the loop over cfg.values() handles next
  all_entries,
  filtered,
  items_with_dt,
  days_map,
  payload,
  file,           \* the content of noticias.json, as the pieces written
  \* a single call of a function, and what it returned
  call,
  ret,
  \* telegram_publisher.py
  feed_entries,   \* d.entries of feedparser.parse(url), for each url of feeds.txt
  max_per_run,    \* MAX_PER_RUN
  state_json,     \* the dict state.json holds
  runs,           \* the runs completed
  feed_changes,   \* the changes of the feeds' listings so far
  sent,           \* the (url, iid) of the messages the last run sent, in order
  delivered,      \* history: the (url, iid) sent by a run and listed by the feed ever since
  resent          \* history: those the last run sent that were in delivered

mainInputs == <<cfg, responses, args_days, localOffset, now_utc>>
mainVars == <<pc, group_ix, all_entries, filtered, items_with_dt, days_map, payload, file>>
callVars == <<call, ret>>
pubVars == <<feed_entries, max_per_run, state_json, runs, feed_changes, sent, delivered, resent>>
vars == <<mainInputs, mainVars, callVars, pubVars>>

(***************************************************************************)
(* Raw entries and feeds the runs are given                                *)
(***************************************************************************)
ABSENT == [kind |-> "absent"]
Tm(t) == [kind |-> "tm", t |-> t]
BAD_TM == [kind |-> "out_of_range"]

RawEntry(title, link, summary, published_parsed) ==
  [title |-> title, link |-> link, summary |-> summary, id |-> NULL,
   published_parsed |-> published_parsed, updated_parsed |-> ABSENT,
   published |-> ABSENT, updated |-> ABSENT, date |-> ABSENT]

\* the clock of the modelled runs: 12:00 UTC of day 8, winter time in Lisbon
NOW == 8 * DAY + 12 * HOUR

T_FED       == <<"F","e","d"," ","r","a","i","s","e","s"," ","r","a","t","e","s">>
T_BITCOIN   == <<"B","i","t","c","o","i","n"," ","s","u","r","g","e","s">>
T_QUIET     == <<"Q","u","i","e","t"," ","d","a","y">>
T_STOCKS    == <<"S","t","o","c","k","s"," ","d","r","o","p">>
T_OIL       == <<"O","i","l"," ","s","t","e","a","d","y">>
T_GOLD      == <<"G","o","l","d"," ","u","p">>
T_BANNER    ==
  <<"C","o","i","n","D","e","s","k",":"," ","B","i","t","c","o","i","n",","," "," ",
    "e","t","h","e","r","e","u","m",","," ","C","r","y","p","t","o"," ","N","e","w","s",
    " ","a","n","d"," ","P","r","i","c","e"," ","D","a","t","a">>
\* 121 characters: one more than the key and the attention point keep
T_LONG      == Rep("x", TITLE_KEY_LEN - 1) \o <<"A", "b">>
S_FED_HTML  == <<"<","b",">","F","e","d","<","/","b",">"," ","c","u","t","s">>
L_A         == <<"h","t","t","p","s",":","/","/","e","x",".","o","r","g","/","a">>
L_B         == <<"h","t","t","p","s",":","/","/","r",".","c","o","m","/","1">>
L_HUB       ==
  <<"h","t","t","p","s",":","/","/","w","w","w",".","c","o","i","n","d","e","s","k",
    ".","c","o","m","/","t","a","g","s","/","b","i","t","c","o","i","n">>
FT_WIRE     == <<"W","i","r","e"," ","-"," ","W","o","r","l","d">>
FT_REUTERS  == <<"R","e","u","t","e","r","s">>

\* the entries feed "A" may list
EntryPool ==
  { RawEntry(T_FED, L_A, NULL, Tm(NOW - 30)),
    RawEntry(T_BITCOIN, L_A, NULL, Tm(NOW - 2 * HOUR)),
    RawEntry(<<" ">>, L_A, S_FED_HTML, ABSENT),
    RawEntry(T_LONG, L_B, NULL, Tm(6 * DAY + 23 * HOUR + 30)),
    RawEntry(T_QUIET, L_A, NULL, BAD_TM),
    RawEntry(T_STOCKS, L_B, NULL, Tm(NOW - 9 * DAY)),
    RawEntry(T_BITCOIN, L_HUB, NULL, Tm(NOW - HOUR)) }

MaxEntries == 2

SeqsUpTo(S, n) == UNION {[1..k -> S] : k \in 0..n}

FeedOk(title, entries) == [kind |-> "ok", title |-> title, entries |-> entries]
FEED_RAISES == [kind |-> "raises"]

ResponsesA == {FeedOk(FT_WIRE, es) : es \in SeqsUpTo(EntryPool, MaxEntries)}

B_ENTRIES ==
  << RawEntry(T_FED, L_B, NULL, Tm(NOW - HOUR)),
     RawEntry(T_OIL, L_B, NULL, Tm(NOW - 3 * HOUR)),
     RawEntry(T_GOLD, L_B, NULL, Tm(NOW - 3 * HOUR)),
     RawEntry(T_BANNER, L_B, NULL, Tm(NOW - 10)),
     RawEntry(T_STOCKS, L_B, NULL, Tm(NOW - 4 * HOUR)) >>

ResponsesB ==
  { FEED_RAISES,
    FeedOk(FT_REUTERS, B_ENTRIES),
    FeedOk(NULL, SubSeq(B_ENTRIES, 1, 2) \o <<RawEntry(T_QUIET, L_B, NULL, BAD_TM)>>
                 \o SubSeq(B_ENTRIES, 3, 5)) }

Configs ==
  { << <<"A", "B">> >>,
    << <<"B">>, NULL, <<"A">> >>,
    << <<>>, <<"A">>, <<"B">> >> }

LocalOffsets == {0, HOUR}
DaysArgs == {0, 7}

\* noticias.json as an earlier run left it
PREVIOUS_DOCUMENT == Document(BuildPayload(<<>>, NOW - DAY))

(***************************************************************************)
(* fetch_news.py: main                                                     *)
(***************************************************************************)
MainStart ==
  /\ pc = "start"
  /\ group_ix = 0
  /\ all_entries = <<>>
  /\ filtered = <<>>
  /\ items_with_dt = <<>>
  /\ days_map = <<>>
  /\ payload = BuildPayload(<<>>, NOW - DAY)
  /\ file = PREVIOUS_DOCUMENT

NO_CALL == [fn |-> "none"]
NOT_RETURNED == [done |-> FALSE]
Returned(v) == [done |-> TRUE, value |-> v]

CallIdle == call = NO_CALL /\ ret = NOT_RETURNED

PubIdle ==
  /\ feed_entries = <<>>
  /\ max_per_run = 0
  /\ state_json = <<>>
  /\ runs = 0
  /\ feed_changes = 0
  /\ sent = <<>>
  /\ delivered = {}
  /\ resent = {}

Init ==
  /\ cfg \in Configs
  /\ responses \in {[A |-> a, B |-> b] : a \in ResponsesA, b \in ResponsesB}
  /\ args_days \in DaysArgs
  /\ localOffset \in LocalOffsets
  /\ now_utc = NOW
  /\ MainStart
  /\ CallIdle
  /\ PubIdle

\* what no step of main touches
MainFrame == UNCHANGED <<mainInputs, callVars, pubVars>>

\* parse_args, the clock, and reading config/feeds.yml
LoadConfig ==
  /\ pc = "start"
  /\ pc' = "collect"
  /\ group_ix' = 1
  /\ UNCHANGED <<all_entries, filtered, items_with_dt, days_map, payload, file>>
  /\ MainFrame

\* one round of: for group in cfg.values(): all_entries.extend(collect_from(group))
CollectGroup ==
  /\ pc = "collect"
  /\ group_ix <= Len(cfg)
  /\ LET r == collect_from(cfg[group_ix], responses, now_utc, localOffset)
     IN  IF r.raised
         THEN /\ pc' = "crashed"
              /\ UNCHANGED <<group_ix, all_entries>>
         ELSE /\ all_entries' = all_entries \o r.out
              /\ group_ix' = group_ix + 1
              /\ pc' = pc
  /\ UNCHANGED <<filtered, items_with_dt, days_map, payload, file>>
  /\ MainFrame

FilterStep ==
  /\ pc = "collect"
  /\ group_ix > Len(cfg)
  /\ filtered' = FilterEntries(all_entries, Cutoff(now_utc, args_days))
  /\ pc' = "enrich"
  /\ UNCHANGED <<group_ix, all_entries, items_with_dt, days_map, payload, file>>
  /\ MainFrame

EnrichStep ==
  /\ pc = "enrich"
  /\ items_with_dt' = Enrich(filtered)
  /\ pc' = "sort"
  /\ UNCHANGED <<group_ix, all_entries, filtered, days_map, payload, file>>
  /\ MainFrame

SortStep ==
  /\ pc = "sort"
  /\ items_with_dt' = SortByDtDesc(items_with_dt)
  /\ pc' = "dedupe"
  /\ UNCHANGED <<group_ix, all_entries, filtered, days_map, payload, file>>
  /\ MainFrame

DedupeKeepLatestStep ==
  /\ pc = "dedupe"
  /\ items_with_dt' = dedupe_keep_latest(items_with_dt)
  /\ pc' = "cap"
  /\ UNCHANGED <<group_ix, all_entries, filtered, days_map, payload, file>>
  /\ MainFrame

CapStep ==
  /\ pc = "cap"
  /\ items_with_dt' = CapItems(items_with_dt)
  /\ pc' = "group"
  /\ UNCHANGED <<group_ix, all_entries, filtered, days_map, payload, file>>
  /\ MainFrame

GroupStep ==
  /\ pc = "group"
  /\ days_map' = GroupByDay(items_with_dt)
  /\ pc' = "rank"
  /\ UNCHANGED <<group_ix, all_entries, filtered, items_with_dt, payload, file>>
  /\ MainFrame

\* the ranking loop, sorted(days_map.values()) and the payload
RankStep ==
  /\ pc = "rank"
  /\ payload' = BuildPayload(RankDays(days_map), now_utc)
  /\ pc' = "open"
  /\ UNCHANGED <<group_ix, all_entries, filtered, items_with_dt, days_map, file>>
  /\ MainFrame

\* open("noticias.json", "w") truncates the file
OpenFile ==
  /\ pc = "open"
  /\ file' = <<>>
  /\ pc' = "dump"
  /\ UNCHANGED <<group_ix, all_entries, filtered, items_with_dt, days_map, payload>>
  /\ MainFrame

\* json.dump: the next piece of the document reaches the file
WritePiece ==
  /\ pc = "dump"
  /\ Len(file) < Len(Document(payload))
  /\ file' = Append(file, Document(payload)[Len(file) + 1])
  /\ UNCHANGED <<pc, group_ix, all_entries, filtered, items_with_dt, days_map, payload>>
  /\ MainFrame

\* a write raises OSError (the disk is full, the process is killed)
WriteFails ==
  /\ pc = "dump"
  /\ Len(file) < Len(Document(payload))
  /\ pc' = "crashed"
  /\ UNCHANGED <<group_ix, all_entries, filtered, items_with_dt, days_map, payload, file>>
  /\ MainFrame

\* leaving the with block closes the file
CloseFile ==
  /\ pc = "dump"
  /\ Len(file) = Len(Document(payload))
  /\ pc' = "done"
  /\ UNCHANGED <<group_ix, all_entries, filtered, items_with_dt, days_map, payload, file>>
  /\ MainFrame

MainNext ==
  \/ LoadConfig
  \/ CollectGroup
  \/ FilterStep
  \/ EnrichStep
  \/ SortStep
  \/ DedupeKeepLatestStep
  \/ CapStep
  \/ GroupStep
  \/ RankStep
  \/ OpenFile
  \/ WritePiece
  \/ WriteFails
  \/ CloseFile

Next == MainNext

Spec == Init /\ [][Next]_vars

(***************************************************************************)
(* Runs over a feed long enough for the cap of main                        *)
(***************************************************************************)
DIGITS == <<"0","1","2","3","4","5","6","7","8","9">>

\* str(n), n >= 0
RECURSIVE Decimal(_)
Decimal(n) == IF n < 10 THEN <<DIGITS[n + 1]>> ELSE Decimal(n \div 10) \o <<DIGITS[(n % 10) + 1]>>

\* The i-th entry of the long feed: a title of its own, and a time within the
\* last four days that neither follows the order of the feed nor is unique.
BulkEntry(i) ==
  RawEntry(<<"n">> \o Decimal(i), L_B \o Decimal(i), NULL,
           Tm(NOW - ((i * 37) % (4 * DAY)) - HOUR))

\* n entries, followed by later sightings of the first dups of them
BulkFeed(n, dups) ==
  FeedOk(FT_REUTERS,
         [i \in 1..n |-> BulkEntry(i)]
         \o [i \in 1..dups |->
               RawEntry(<<"N">> \o Decimal(i), L_B \o Decimal(i), NULL, Tm(NOW - i))])

\* how far beyond MAX_ITEMS the long feed goes
BulkOver == 1

BulkSizes == (MAX_ITEMS - 1)..(MAX_ITEMS + BulkOver)

\* what feed "A" lists beside the long feed: nothing, the most recent item of
\* the run, or its oldest
BulkCompanions ==
  { <<>>,
    <<RawEntry(T_FED, L_A, NULL, Tm(NOW))>>,
    <<RawEntry(T_QUIET, L_A, NULL, Tm(NOW - 6 * DAY))>> }

InitBulk ==
  /\ cfg = << <<"A">>, <<"B">> >>
  /\ responses \in {[A |-> FeedOk(FT_WIRE, es), B |-> BulkFeed(n, 2)] :
                      es \in BulkCompanions, n \in BulkSizes}
  /\ args_days = 7
  /\ localOffset = 0
  /\ now_utc = NOW
  /\ MainStart
  /\ CallIdle
  /\ PubIdle

SpecBulk == InitBulk /\ [][Next]_vars

(***************************************************************************)
(* Single calls of dedupe_keep_latest, guess_category and normalize_item   *)
(***************************************************************************)
\* main is not running
MainIdle ==
  /\ cfg = <<>>
  /\ responses = [A |-> FEED_RAISES, B |-> FEED_RAISES]
  /\ args_days = 7
  /\ now_utc = NOW
  /\ MainStart

CallFrame == UNCHANGED <<mainInputs, mainVars, pubVars>>

\* ---- dedupe_keep_latest ----
T_LONG_2 == Rep("X", TITLE_KEY_LEN - 1) \o <<"a", "Z">>
T_LONG_3 == Rep("x", TITLE_KEY_LEN - 1) \o <<"B", "b">>
SRC_WIRE == <<"W","i","r","e">>
SRC_WIRE_LC == <<"w","i","r","e">>
SRC_OTHER == <<"O","t","h","e","r">>

\* Items of one key (T_LONG and T_LONG_2 agree on their first 120 characters
\* up to case, as do the sources), of a key that differs in the 120th
\* character, and of a key that differs in the source.
DedupeItems ==
  { [id |-> 1, title |-> T_LONG,   source |-> SRC_WIRE],
    [id |-> 2, title |-> T_LONG_2, source |-> SRC_WIRE_LC],
    [id |-> 3, title |-> T_LONG_3, source |-> SRC_WIRE],
    [id |-> 4, title |-> T_LONG,   source |-> SRC_OTHER] }

DedupeTimes == {NOW - 2, NOW - 1, NOW}

DedupePairs == {[it |-> it, dt |-> dt] : it \in DedupeItems, dt \in DedupeTimes}

MaxPairs == 3

InitDedupe ==
  /\ call \in {[fn |-> "dedupe_keep_latest", items_with_dt |-> s] :
                 s \in SeqsUpTo(DedupePairs, MaxPairs)}
  /\ ret = NOT_RETURNED
  /\ localOffset = 0
  /\ MainIdle
  /\ PubIdle

CallDedupe ==
  /\ call.fn = "dedupe_keep_latest"
  /\ ~ret.done
  /\ ret' = Returned(dedupe_keep_latest(call.items_with_dt))
  /\ UNCHANGED call
  /\ CallFrame

SpecDedupe == InitDedupe /\ [][CallDedupe]_vars

\* ---- guess_category ----
W_FED      == <<"F","e","d">>
W_BITCOIN  == <<"b","i","t","c","o","i","n">>
W_SEC      == <<"S","E","C">>
W_EARNINGS == <<"e","a","r","n","i","n","g","s">>
W_STOCKS   == <<"s","t","o","c","k","s">>
W_HOUSING  == <<"h","o","u","s","i","n","g">>
W_STARTS   == <<"s","t","a","r","t","s">>
W_METHOD   == <<"M","e","t","h","o","d">>
W_QUIET    == <<"q","u","i","e","t">>

Words ==
  {W_FED, W_BITCOIN, W_SEC, W_EARNINGS, W_STOCKS, W_HOUSING, W_STARTS, W_METHOD, W_QUIET}

MaxWords == 2

\* " ".join(ws)
RECURSIVE JoinWords(_)
JoinWords(ws) ==
  IF Len(ws) = 0 THEN <<>>
  ELSE IF Len(ws) = 1 THEN ws[1]
  ELSE ws[1] \o SPACE \o JoinWords(Tail(ws))

CategoryTitles == {JoinWords(ws) : ws \in SeqsUpTo(Words, MaxWords)}
CategorySummaries == {<<>>, W_STARTS \o SPACE \o W_QUIET}
CategorySources ==
  { <<>>, <<"C","o","i","n","D","e","s","k">>, <<"R","e","u","t","e","r","s">>,
    <<"B","l","o","g">> }

InitCategory ==
  /\ call \in {[fn |-> "guess_category", title |-> t, summary |-> s, source_name |-> n] :
                 t \in CategoryTitles, s \in CategorySummaries, n \in CategorySources}
  /\ ret = NOT_RETURNED
  /\ localOffset = 0
  /\ MainIdle
  /\ PubIdle

CallCategory ==
  /\ call.fn = "guess_category"
  /\ ~ret.done
  /\ ret' = Returned(guess_category(call.title, call.summary, call.source_name))
  /\ UNCHANGED call
  /\ CallFrame

SpecCategory == InitCategory /\ [][CallCategory]_vars

\* ---- normalize_item ----
UNPARSEABLE == [kind |-> "unparseable"]
Naive(t) == [kind |-> "naive", t |-> t]
Aware(t) == [kind |-> "aware", t |-> t]

\* each date field holds a time of its own, so that the field the result
\* comes from can be told
StructDates(t) == {ABSENT, Tm(t), BAD_TM}
TextDates(t) == {ABSENT, UNPARSEABLE, Naive(t), Aware(t)}

NormalizeEntries ==
  { [title |-> T_FED, link |-> L_A, summary |-> S_FED_HTML, id |-> NULL,
     published_parsed |-> pp, updated_parsed |-> up,
     published |-> p, updated |-> u, date |-> d] :
       pp \in StructDates(NOW - 1 * DAY), up \in StructDates(NOW - 2 * DAY),
       p \in TextDates(NOW - 3 * DAY), u \in TextDates(NOW - 4 * DAY),
       d \in TextDates(NOW - 5 * DAY) }

InitNormalize ==
  /\ call \in {[fn |-> "normalize_item", entry |-> e, feed_title |-> FT_WIRE] :
                 e \in NormalizeEntries}
  /\ ret = NOT_RETURNED
  /\ localOffset \in LocalOffsets
  /\ MainIdle
  /\ PubIdle

CallNormalize ==
  /\ call.fn = "normalize_item"
  /\ ~ret.done
  /\ ret' = Returned(normalize_item(call.entry, call.feed_title, now_utc, localOffset))
  /\ UNCHANGED call
  /\ CallFrame

SpecNormalize == InitNormalize /\ [][CallNormalize]_vars

(***************************************************************************)
(* telegram_publisher.py                                                   *)
(***************************************************************************)
DEFAULT_MAX_PER_RUN == 6
HISTORY_LEN == 200

U1 == <<"h","t","t","p","s",":","/","/","f","1">>
U2 == <<"h","t","t","p","s",":","/","/","f","2">>

\* (ROOT / "feeds.txt").read_text().splitlines()
FEEDS ==
  << U1,
     <<"#"," ","o","f","f">>,
     <<>>,
     <<" ">> \o U2 \o <<" ">> >>

\* the lines of FEEDS the loop of run does not skip, stripped
RECURSIVE FeedUrlsFrom(_)
FeedUrlsFrom(k) ==
  IF k > Len(FEEDS) THEN <<>>
  ELSE LET url == strip(FEEDS[k])
       IN  (IF url = <<>> \/ StartsAt(url, 1, <<"#">>) THEN <<>> ELSE <<url>>)
           \o FeedUrlsFrom(k + 1)

FeedUrls == FeedUrlsFrom(1)

\* str(entry), for an entry that has no id, guid, link or title
ReprTm(tm) == IF tm.kind = "tm" THEN Decimal(tm.t) ELSE <<"?">>
StrOfEntry(entry) ==
  <<"{">> \o ReprTm(entry.published_parsed) \o <<",">> \o ReprTm(entry.updated_parsed)
  \o <<",">> \o ReprTm(entry.created_parsed) \o <<"}">>

\* hashlib.sha1(cand.encode("utf-8", errors="ignore")).hexdigest()
Sha1Hex(cand) == <<"sha1", cand>>

item_id(entry) ==
  LET cand == IF Truthy(entry.id) THEN entry.id
              ELSE IF Truthy(entry.guid) THEN entry.guid
              ELSE IF Truthy(entry.link) THEN entry.link
              ELSE IF Truthy(entry.title) THEN entry.title
              ELSE StrOfEntry(entry)
  IN  Sha1Hex(cand)

EPOCH_KEYS == <<"published_parsed", "updated_parsed", "created_parsed">>

\* the loop of as_epoch, from the k-th key on
RECURSIVE EpochFrom(_, _, _)
EpochFrom(entry, k, offset) ==
  IF k > Len(EPOCH_KEYS) THEN 0
  ELSE LET v == entry[EPOCH_KEYS[k]]
       IN  IF Present(v) /\ ~MktimeRaises(v) THEN FromStruct(v, offset)
           ELSE EpochFrom(entry, k + 1, offset)

as_epoch(entry, offset) == EpochFrom(entry, 1, offset)

\* state.get(url, [])
StateGet(state, url) == IF url \in DOMAIN state THEN state[url] ELSE <<>>

\* state[url] = lst
StateSet(state, url, lst) == (url :> lst) @@ state

\* s[-n:]
LastN(s, n) ==
  IF n = 0 THEN s
  ELSE IF n > 0 THEN SubSeq(s, Max(1, Len(s) - n + 1), Len(s))
  ELSE SubSeq(s, Min(Len(s), -n) + 1, Len(s))

\* fresh.sort(key=lambda t: as_epoch(t[1])): a stable sort, ascending
InsertByEpoch(acc, x, offset) ==
  InsertAt(acc, x,
           Cardinality({i \in 1..Len(acc) : as_epoch(acc[i].e, offset) <= as_epoch(x.e, offset)}))

RECURSIVE SortByEpochLoop(_, _, _, _, _)
SortByEpochLoop(acc, s, lo, hi, offset) ==
  IF Len(acc) < 0 \/ lo > hi THEN acc
  ELSE IF lo = hi THEN InsertByEpoch(acc, s[lo], offset)
  ELSE LET mid == (lo + hi) \div 2
       IN  SortByEpochLoop(SortByEpochLoop(acc, s, lo, mid, offset), s, mid + 1, hi, offset)

\* what the body of the loop over FEEDS queues for one url
FreshOf(url, state, entries, offset) ==
  LET seen  == {StateGet(state, url)[i] : i \in 1..Len(StateGet(state, url))}
      all   == [i \in 1..Len(entries) |->
                  [url |-> url, iid |-> item_id(entries[i]), e |-> entries[i]]]
      IsFresh(t) == t.iid \notin seen
      fresh == SelectSeq(all, IsFresh)
  IN  SortByEpochLoop(<<>>, fresh, 1, Len(fresh), offset)

RECURSIVE QueueFrom(_, _, _, _)
QueueFrom(k, state, listing, offset) ==
  IF k > Len(FeedUrls) THEN <<>>
  ELSE FreshOf(FeedUrls[k], state, listing[FeedUrls[k]], offset)
       \o QueueFrom(k + 1, state, listing, offset)

\* queued, after queued = queued[-MAX_PER_RUN:]
RunQueue(state, listing, limit, offset) == LastN(QueueFrom(1, state, listing, offset), limit)

\* the state update of the sending loop for one queued message
RecordSent(state, q) ==
  StateSet(state, q.url, LastN(Append(StateGet(state, q.url), q.iid), HISTORY_LEN))

\* the sending loop over queued[lo..hi]
RECURSIVE RecordLoop(_, _, _, _)
RecordLoop(state, queued, lo, hi) ==
  IF (DOMAIN state = {} /\ FALSE) \/ lo > hi THEN state
  ELSE IF lo = hi THEN RecordSent(state, queued[lo])
  ELSE LET mid == (lo + hi) \div 2
       IN  RecordLoop(RecordLoop(state, queued, lo, mid), queued, mid + 1, hi)

\* ---- the feeds the publisher reads ----
PubEntry(url, n) ==
  [id |-> NULL, guid |-> NULL, link |-> url \o <<"/">> \o Decimal(n),
   title |-> <<"t">> \o Decimal(n),
   published_parsed |-> IF n % 5 = 0 THEN BAD_TM ELSE Tm(n * 10),
   updated_parsed |-> IF n % 10 = 0 THEN ABSENT ELSE Tm(n * 10 + 1),
   created_parsed |-> ABSENT]

\* entries a feed adds while the runs go on
MaxPublished == 2

\* runs of the publisher, and changes of the listings between them
MaxRuns == 36
MaxFeedChanges == 1

Listed(listing) ==
  UNION {{<<u, item_id(listing[u][i])>> : i \in 1..Len(listing[u])} : u \in DOMAIN listing}

InitPublisher ==
  /\ \E n1 \in {2, HISTORY_LEN + 1} :
       feed_entries = [u \in {U1, U2} |->
                         IF u = U1 THEN [i \in 1..n1 |-> PubEntry(u, i + MaxPublished)]
                         ELSE <<PubEntry(u, 1 + MaxPublished)>>]
  /\ max_per_run \in {DEFAULT_MAX_PER_RUN, HISTORY_LEN + 50}
  /\ state_json = <<>>
  /\ runs = 0
  /\ feed_changes = 0
  /\ sent = <<>>
  /\ delivered = {}
  /\ resent = {}
  /\ localOffset = 0
  /\ MainIdle
  /\ CallIdle

PubFrame == UNCHANGED <<mainInputs, mainVars, callVars>>

\* run(), from load_state to save_state
RunPublisher ==
  /\ runs < MaxRuns
  /\ runs' = runs + 1
  /\ \E queued \in {RunQueue(state_json, feed_entries, max_per_run, localOffset)} :
       \E pairs \in {[i \in 1..Len(queued) |-> <<queued[i].url, queued[i].iid>>]} :
         /\ state_json' = RecordLoop(state_json, queued, 1, Len(queued))
         /\ sent' = pairs
         /\ resent' = {pairs[i] : i \in 1..Len(pairs)} \cap delivered
         /\ delivered' = delivered \cup {pairs[i] : i \in 1..Len(pairs)}
  /\ UNCHANGED <<feed_entries, max_per_run, feed_changes>>
  /\ PubFrame

\* between two runs a feed lists a new entry, older than those it lists
FeedPublishes(u) ==
  /\ feed_changes < MaxFeedChanges
  /\ feed_changes' = feed_changes + 1
  /\ \E k \in 1..MaxPublished :
       /\ \A i \in 1..Len(feed_entries[u]) : feed_entries[u][i] # PubEntry(u, k)
       /\ feed_entries' = [feed_entries EXCEPT ![u] = Append(@, PubEntry(u, k))]
  /\ UNCHANGED <<max_per_run, state_json, runs, sent, delivered, resent>>
  /\ PubFrame

\* between two runs a feed stops listing its first entry
FeedExpires(u) ==
  /\ feed_changes < MaxFeedChanges
  /\ feed_changes' = feed_changes + 1
  /\ Len(feed_entries[u]) > 0
  /\ feed_entries' = [feed_entries EXCEPT ![u] = Tail(@)]
  /\ delivered' = delivered \cap Listed(feed_entries')
  /\ UNCHANGED <<max_per_run, state_json, runs, sent, resent>>
  /\ PubFrame

PublisherNext ==
  \/ RunPublisher
  \/ \E u \in {U1, U2} : FeedPublishes(u)
  \/ \E u \in {U1, U2} : FeedExpires(u)

SpecPublisher == InitPublisher /\ [][PublisherNext]_vars

(***************************************************************************)
(* Properties                                                              *)
(***************************************************************************)
Range(s) == {s[i] : i \in 1..Len(s)}

\* ---- C1 ----
\* the key the contract names: the first 120 characters of the title,
\* lower-cased, and the source, lower-cased
ContractKey(pair) == <<lower(Take(pair.it.title, 120)), lower(pair.it.source)>>

\* C1: dedupe_keep_latest returns exactly one pair per distinct key of its
\* input; the pair returned for a key has the greatest timestamp among the
\* input pairs of that key, and of several such pairs it is the one that
\* comes first in the input.
C1_OnePerKeyLatestFirst ==
  ret.done /\ call.fn = "dedupe_keep_latest" =>
    LET in   == call.items_with_dt
        out  == ret.value
        keys == {ContractKey(in[i]) : i \in 1..Len(in)}
    IN  /\ Len(out) = Cardinality(keys)
        /\ \A k \in keys :
             LET idx    == {i \in 1..Len(in) : ContractKey(in[i]) = k}
                 latest == {i \in idx : \A j \in idx : in[j].dt <= in[i].dt}
                 first  == CHOOSE i \in latest : \A j \in latest : i <= j
             IN  /\ Cardinality({j \in 1..Len(out) : ContractKey(out[j]) = k}) = 1
                 /\ \E j \in 1..Len(out) : out[j] = in[first]

\* three pairs of one key: an older one, then two different items that share
\* the greatest timestamp; the first of the two is what comes back
C1_Witness ==
  /\ ret.done
  /\ call.fn = "dedupe_keep_latest"
  /\ Len(call.items_with_dt) = 3
  /\ LET in == call.items_with_dt
     IN  /\ ContractKey(in[1]) = ContractKey(in[2])
         /\ ContractKey(in[2]) = ContractKey(in[3])
         /\ in[1].dt < in[2].dt
         /\ in[2].dt = in[3].dt
         /\ in[2].it # in[3].it
         /\ in[2].it.title # in[3].it.title
         /\ ret.value = <<in[2]>>

\* ---- C2 ----
RECURSIVE TotalItems(_)
TotalItems(days) ==
  IF days = <<>> THEN 0 ELSE Len(days[1].items) + TotalItems(Tail(days))

\* C2: when more than MAX_ITEMS items survive the sort and dedupe_keep_latest,
\* the slice retains exactly MAX_ITEMS of them, each with a timestamp greater
\* than or equal to that of every survivor it drops; and the days of the
\* payload never hold more than MAX_ITEMS items in total.
C2_CapKeepsMostRecent ==
  /\ [](TotalItems(payload.days) <= MAX_ITEMS)
  /\ [][ (pc = "cap" /\ pc' = "group" /\ Len(items_with_dt) > MAX_ITEMS) =>
           \E kept \in {Range(items_with_dt')} :
             \E dropped \in {{j \in 1..Len(items_with_dt) : items_with_dt[j] \notin kept}} :
               /\ Len(items_with_dt') = MAX_ITEMS
               /\ Cardinality(kept) = MAX_ITEMS
               /\ kept \subseteq Range(items_with_dt)
               /\ \A i \in 1..Len(items_with_dt') : \A j \in dropped :
                     items_with_dt'[i].dt >= items_with_dt[j].dt ]_vars

\* the slice has acted on more than MAX_ITEMS survivors, one of them left out
\* being as old as the oldest kept is or older
C2_Witness ==
  /\ pc = "group"
  /\ Len(items_with_dt) = MAX_ITEMS
  /\ LET survivors == dedupe_keep_latest(SortByDtDesc(Enrich(filtered)))
     IN  /\ Len(survivors) > MAX_ITEMS
         /\ survivors[MAX_ITEMS + 1] \notin Range(items_with_dt)
         /\ Len(filtered) > Len(survivors)

\* ---- C3 ----
HasTitle(it) == it.title # <<>>

\* C3: in every day bucket of the payload, attention_points has at most 3
\* entries, and they are the first 120 characters of the titles of the first
\* up to 3 items of that bucket, in its sorted order, that have a non-empty
\* title; an item with an empty title takes no slot.
C3_AttentionPoints ==
  \A d \in 1..Len(payload.days) :
    LET bucket == payload.days[d]
        titled == SelectSeq(bucket.items, HasTitle)
        n      == Min(3, Len(titled))
    IN  /\ Len(bucket.attention_points) <= 3
        /\ bucket.attention_points = [i \in 1..n |-> Take(titled[i].title, 120)]

\* a bucket whose first item has no title and that has more than 3 titled
\* items: the three points come from the items behind the untitled one
C3_Witness ==
  \E d \in 1..Len(payload.days) :
    LET bucket == payload.days[d]
        titled == SelectSeq(bucket.items, HasTitle)
    IN  /\ Len(titled) > 3
        /\ bucket.items[1].title = <<>>
        /\ Len(bucket.attention_points) = 3
        /\ bucket.attention_points[3] = bucket.items[4].title

\* ---- C4 ----
\* the candidates of the contract in their order, each with whether it
\* converts and what it converts to
DateCandidates(entry, offset) ==
  << [has |-> Present(entry.published_parsed),
      ok  |-> ~MktimeRaises(entry.published_parsed),
      dt  |-> IF entry.published_parsed.kind = "tm"
              THEN FromStruct(entry.published_parsed, offset) ELSE 0],
     [has |-> Present(entry.updated_parsed),
      ok  |-> ~MktimeRaises(entry.updated_parsed),
      dt  |-> IF entry.updated_parsed.kind = "tm"
              THEN FromStruct(entry.updated_parsed, offset) ELSE 0] >>
  \o [k \in 1..Len(TEXT_DATE_KEYS) |->
        LET v == entry[TEXT_DATE_KEYS[k]]
        IN  [has |-> Present(v),
             ok  |-> ~ParseRaises(v),
             dt  |-> IF v.kind \in {"naive", "aware"} THEN FromText(v, offset) ELSE 0]]

\* C4: normalize_item never raises and returns a timestamp for every raw
\* entry: a date candidate that fails to convert is passed over for the next
\* one (published_parsed, updated_parsed, then published, updated, date), and
\* the run's current time is used when none yields a time.
C4_AlwaysATimestamp ==
  ret.done /\ call.fn = "normalize_item" =>
    /\ ~ret.value.raised
    /\ LET c    == DateCandidates(call.entry, localOffset)
           good == {k \in 1..Len(c) : c[k].has /\ c[k].ok}
       IN  ret.value.dt = IF good = {} THEN now_utc
                          ELSE c[CHOOSE k \in good : \A j \in good : k <= j].dt

\* ---- C5 ----
\* C5: guess_category returns the first category, in the declared order
\* Crypto, US Macro, Regulation, Earnings, Markets, that has a keyword
\* occurring in the lower-cased title + summary + source, wherever in the
\* text the keywords occur; with no keyword of any category in the text it
\* returns the category of the source-name fallback, else the default.
C5_FirstDeclaredCategory ==
  /\ [i \in 1..Len(CATEGORY_KEYWORDS) |-> CATEGORY_KEYWORDS[i].cat]
       = <<"Crypto", "US Macro", "Regulation", "Earnings", "Markets">>
  /\ ret.done /\ call.fn = "guess_category" =>
       LET text == lower(call.title \o <<" ">> \o call.summary \o <<" ">> \o call.source_name)
           with == {ci \in 1..Len(CATEGORY_KEYWORDS) :
                      \E k \in 1..Len(CATEGORY_KEYWORDS[ci].kws) :
                         StrIn(CATEGORY_KEYWORDS[ci].kws[k], text)}
       IN  ret.value =
             IF with # {}
               THEN CATEGORY_KEYWORDS[CHOOSE ci \in with : \A cj \in with : ci <= cj].cat
             ELSE IF \E k \in 1..Len(CRYPTO_SOURCES) :
                        StrIn(CRYPTO_SOURCES[k], lower(call.source_name))
               THEN "Crypto"
             ELSE "Markets"

\* "stocks Fed": the Markets keyword stands first in the text, US Macro is
\* declared first and is returned
C5_Witness ==
  /\ ret.done
  /\ call.fn = "guess_category"
  /\ call.title = W_STOCKS \o SPACE \o W_FED
  /\ call.summary = <<>>
  /\ ret.value = "US Macro"

\* ---- C6 ----
\* what a source contributes by the contract: nothing when fetching it or
\* normalizing any of its entries raises, all its entries otherwise
ContractRows(resp, now, offset) ==
  IF resp.kind = "raises" THEN <<>>
  ELSE LET feed_title == OrEmpty(resp.title)
           norm == [i \in 1..Len(resp.entries) |->
                      normalize_item(resp.entries[i], feed_title, now, offset)]
       IN  IF \E i \in 1..Len(resp.entries) : norm[i].raised THEN <<>>
           ELSE [i \in 1..Len(resp.entries) |->
                   [it |-> norm[i].item, dt |-> norm[i].dt, feed_title |-> feed_title]]

RECURSIVE ContractRowsOfFeeds(_, _)
ContractRowsOfFeeds(feeds, k) ==
  IF k > Len(feeds) THEN <<>>
  ELSE ContractRows(responses[feeds[k]], now_utc, localOffset)
       \o ContractRowsOfFeeds(feeds, k + 1)

RECURSIVE ContractRowsOfGroups(_)
ContractRowsOfGroups(g) ==
  IF g > Len(cfg) THEN <<>>
  ELSE ContractRowsOfFeeds(cfg[g], 1) \o ContractRowsOfGroups(g + 1)

\* C6: a source whose processing fails inside collect_from contributes no
\* entry to what the run collects, the run goes on, and the entries of the
\* other sources are those collected without the failing source.
C6_FailingSourceContributesNothing ==
  pc \in {"enrich", "sort", "dedupe", "cap", "group", "rank", "open", "dump", "done"} =>
    all_entries = ContractRowsOfGroups(1)

\* ---- C7 ----
\* C7: noticias.json always holds either its complete previous content or
\* the complete new payload, also in the middle of the write step and after
\* a failure.
C7_AtomicWrite ==
  \/ file = PREVIOUS_DOCUMENT
  \/ pc \in {"dump", "done", "crashed"} /\ file = Document(payload)

\* ---- C8 ----
\* C8: a group of the configuration whose feed list is empty or null is
\* skipped without raising: main goes on to the next group with what it has
\* collected.
C8_EmptyGroupSkipped ==
  [][ (pc = "collect" /\ group_ix <= Len(cfg) /\ cfg[group_ix] \in {NULL, <<>>}) =>
        (pc' = "collect" /\ group_ix' = group_ix + 1 /\ all_entries' = all_entries) ]_vars

\* ---- C9 ----
\* C9: in every day bucket of the payload, an item a placed before an item b
\* has impact(a) > impact(b), or impact(a) = impact(b) and time(a) >= time(b).
C9_BucketOrder ==
  \A d \in 1..Len(payload.days) :
    LET items == payload.days[d].items
    IN  \A i, j \in 1..Len(items) :
          i < j =>
            \/ items[i].impact_score > items[j].impact_score
            \/ /\ items[i].impact_score = items[j].impact_score
               /\ ~TimeLess(items[i].time, items[j].time)

\* a bucket where the time of day decides between two items of one impact,
\* and where an item of higher impact stands before a later one of lower
\* impact
C9_Witness ==
  \E d \in 1..Len(payload.days) :
    LET items == payload.days[d].items
    IN  /\ \E i, j \in 1..Len(items) :
             /\ i < j
             /\ items[i].impact_score = items[j].impact_score
             /\ TimeLess(items[j].time, items[i].time)
        /\ \E i, j \in 1..Len(items) :
             /\ i < j
             /\ items[i].impact_score > items[j].impact_score
             /\ TimeLess(items[i].time, items[j].time)

\* ---- C10 ----
\* C10: an entry a run has sent is not sent again by a later run while the
\* feed still lists it, and its identifier stays in the feed's list of
\* state.json as long as the feed lists the entry.
C10_NeverSentTwice ==
  /\ resent = {}
  /\ \A p \in delivered : p[2] \in Range(StateGet(state_json, p[1]))

=============================================================================
